---- MODULE Spec2Model ----
(***************************************************************************)
(* Authentication and session-security subsystem of Nexus Optimizer Pro:   *)
(* the rate limiter (server/utils.ts, server/auth.ts), the in-memory       *)
(* credential store (MemStorage), and the /auth routes (server/routes.ts). *)
(*                                                                         *)
(* Time is Date.now() in milliseconds.  A request handler runs atomically  *)
(* from its start up to bcrypt.compare / bcrypt.hash, which complete on a  *)
(* later turn of the event loop; awaits on MemStorage promises resolve in  *)
(* the same microtask drain, so no other handler runs in between.  A       *)
(* handler suspended at bcrypt is a record in inflight.                    *)
(***************************************************************************)
EXTENDS Integers, Sequences, FiniteSets, TLC

\* ---------------------------------------------------------------- bounds
\* Requests received in one behaviour.
MaxRequests == 7
\* Requests received in one behaviour of logins with a clock.
MaxLoginRequests == 6
\* Requests received in one behaviour of the password-reset flow.
MaxResetRequests == 5
\* Requests put to the rate limiter alone in one behaviour.
MaxRateRequests == 7
\* Advances of the clock in one behaviour.
MaxTicks == 2
\* Handlers suspended at bcrypt at the same time.
MaxInflight == 2
\* Requests received in one behaviour of signups and profile updates.
MaxAccountRequests == 4
\* Requests received in one behaviour of the authenticated routes.
MaxAuthRequests == 4
\* Tokens generated and presented in one behaviour of auth.ts.
MaxTokenRequests == 4
\* Requests received in one behaviour of the security-log specification.
MaxAuditRequests == 4
\* Requests received in one behaviour with a security log that fails.
MaxLogFailRequests == 4
MaxTwoFactorRequests == 5
MaxProfileRequests == 5

\* ------------------------------------------------------ program constants
\* utils.ts: const window = 15 * 60 * 1000
WINDOW == 900000
\* utils.ts: record.count >= 5
RATE_CEILING == 5
\* auth.ts rateLimiter: retryAfter: 900
RETRY_AFTER == 900
\* routes.ts login: new Date(Date.now() + 15 * 60 * 1000)
LOCKOUT == 900000
\* routes.ts login: (user.failedLoginAttempts || 0) >= 4
LOCK_THRESHOLD == 4
\* routes.ts jwt.sign: expiresIn "7d", in seconds
JWT_TTL == 604800
\* routes.ts password-reset-request: new Date(Date.now() + 60 * 60 * 1000)
RESET_TTL == 3600000
\* MemStorage.createUser: lockoutUntil: null
NULL_DATE == -1
\* createSecurityLog called without a userId (login_failed for an unknown username)
NO_USER == 0

\* ----------------------------------------------------------- input sets
IPs == {"10.0.0.1", "10.0.0.2"}
LOGIN_PATH == "/auth/login"
SIGNUP_PATH == "/auth/signup"
RESET_REQUEST_PATH == "/auth/password-reset-request"
RESET_PATH == "/auth/password-reset"
Usernames == {"alice", "bob"}
Passwords == {"Passw0rd1", "Passw0rd2"}
\* twoFactorCode is optional: "" is a request without one.
Codes == {"", "123456", "000000"}
NO_EMAIL == ""
Emails == {"alice@example.com"}
\* process.env.JWT_SECRET || "your-secret-key" (routes.ts, authenticateToken)
ROUTES_SECRET == "your-secret-key"
\* process.env.JWT_SECRET || 'nexus-optimizer-secret-key-change-in-production'
\* (auth.ts, generateToken and verifyToken)
JWT_SECRET == "nexus-optimizer-secret-key-change-in-production"
\* A username field left out of the body of PUT /profile.
NO_NAME == ""

VARIABLES
  now,             \* Date.now()
  ticks,           \* advances of the clock so far
  logFails,        \* storage.createSecurityLog throws when it is called
  gameProfiles,    \* MemStorage.gameProfiles, in the order of insertion
  served,          \* requests received so far (request ids are 1..served)
  rateLimitStore,  \* global.rateLimitStore: key -> {count, firstAttempt}
  reqLog,          \* what rateLimiter answered, request by request
  users,           \* MemStorage.users, in insertion order; a user's id is its index
  userSettings,    \* MemStorage.userSettings, in insertion order
  securityLogs,    \* MemStorage.securityLogs, in insertion order
  passwordResets,  \* MemStorage.passwordResets, in insertion order
  redeemed,        \* reset tokens whose redemption was answered with success
  inflight,        \* handlers suspended at bcrypt.compare / bcrypt.hash
  issued,          \* tokens the server has signed and sent to clients
  resp             \* the response sent last

vars == <<now, ticks, logFails, gameProfiles, served, rateLimitStore, reqLog, users, userSettings,
          securityLogs, passwordResets, redeemed, inflight, issued, resp>>

resetVars == <<passwordResets, redeemed>>
handlerVars == <<users, userSettings, securityLogs, passwordResets, redeemed,
                 inflight, issued, resp>>

\* ---------------------------------------------------------- rate limiter
\* const key = `${ip}:${action}`
RateKey(ip, action) == <<ip, action>>

MapSet(m, k, v) == [x \in DOMAIN m \cup {k} |-> IF x = k THEN v ELSE m[x]]

\* Mutant of isRateLimited: the ceiling tested after the increment, so that a
\* sixth request gets through.
isRateLimited_OffByOne(store, ip, action, t) ==
  LET key == <<ip, action>> IN
  IF key \notin DOMAIN store \/ t - store[key].firstAttempt > WINDOW
    THEN [limited |-> FALSE,
          store |-> [x \in DOMAIN store \cup {key} |->
                       IF x = key THEN [count |-> 1, firstAttempt |-> t] ELSE store[x]]]
  ELSE IF store[key].count > RATE_CEILING
    THEN [limited |-> TRUE, store |-> store]
  ELSE [limited |-> FALSE,
        store |-> [store EXCEPT ![key].count = store[key].count + 1]]

\* Mutant of isRateLimited: a rejection starts the key's record anew.
isRateLimited_ResetsOnReject(store, ip, action, t) ==
  LET key == <<ip, action>> IN
  IF key \notin DOMAIN store \/ t - store[key].firstAttempt > WINDOW
    THEN [limited |-> FALSE,
          store |-> [x \in DOMAIN store \cup {key} |->
                       IF x = key THEN [count |-> 1, firstAttempt |-> t] ELSE store[x]]]
  ELSE IF store[key].count >= RATE_CEILING
    THEN [limited |-> TRUE,
          store |-> [store EXCEPT ![key] = [count |-> 0, firstAttempt |-> t]]]
  ELSE [limited |-> FALSE,
        store |-> [store EXCEPT ![key].count = store[key].count + 1]]

\* isRateLimited(ip, action): the answer and the store it leaves.
isRateLimited(store, ip, action, t) ==
  LET key == RateKey(ip, action) IN
  IF key \notin DOMAIN store
    THEN [limited |-> FALSE,
          store |-> MapSet(store, key, [count |-> 1, firstAttempt |-> t])]
  ELSE IF t - store[key].firstAttempt > WINDOW
    THEN [limited |-> FALSE,
          store |-> MapSet(store, key, [count |-> 1, firstAttempt |-> t])]
  ELSE IF store[key].count >= RATE_CEILING
    THEN [limited |-> TRUE, store |-> store]
  ELSE [limited |-> FALSE,
        store |-> MapSet(store, key, [count |-> store[key].count + 1,
                                      firstAttempt |-> store[key].firstAttempt])]

\* The 429 body of rateLimiter.
TooManyRequests ==
  [status |-> 429, error |-> "Too many requests. Please try again later.",
   retryAfter |-> RETRY_AFTER]

\* rateLimiter middleware in front of a handler that touches no state.
rateLimiter(ip, path) ==
  LET r == isRateLimited(rateLimitStore, ip, path, now) IN
  /\ served < MaxRateRequests
  /\ served' = served + 1
  /\ rateLimitStore' = r.store
  /\ reqLog' = Append(reqLog, [ip |-> ip, path |-> path, at |-> now,
                               status |-> IF r.limited THEN 429 ELSE 200])
  /\ UNCHANGED <<now, ticks, logFails, gameProfiles>>
  /\ UNCHANGED handlerVars

\* ------------------------------------------------------------ MemStorage
\* getUserByUsername: Array.from(users.values()).find(...), the id or NO_USER.
getUserByUsername(us, username) ==
  LET hits == {i \in 1..Len(us) : us[i].username = username} IN
  IF hits = {} THEN NO_USER ELSE CHOOSE i \in hits : \A j \in hits : i <= j

\* The lookup by email of signup, profile update and password-reset-request:
\* Array.from(storage["users"].values()).find(u => u.email === email).
findUserByEmail(us, email) ==
  LET hits == {i \in 1..Len(us) : us[i].email = email} IN
  IF hits = {} THEN NO_USER ELSE CHOOSE i \in hits : \A j \in hits : i <= j

\* createUser: the id is fresh (randomUUID); here the next index.
createUser(us, username, email, passwordHash) ==
  Append(us, [id |-> Len(us) + 1, username |-> username, email |-> email,
              passwordHash |-> passwordHash, lastLogin |-> NULL_DATE,
              twoFactorEnabled |-> FALSE, isLocked |-> FALSE,
              lockoutUntil |-> NULL_DATE, failedLoginAttempts |-> 0])

\* createUserSettings, as createUser calls it.
createUserSettings(settings, userId) ==
  Append(settings, [userId |-> userId, darkMode |-> TRUE, colorTheme |-> "green"])

updateUserLastLogin(us, id, t) ==
  IF id \in 1..Len(us) THEN [us EXCEPT ![id].lastLogin = t] ELSE us

updateUser2FA(us, id, enabled) ==
  IF id \in 1..Len(us) THEN [us EXCEPT ![id].twoFactorEnabled = enabled] ELSE us

\* Mutant of lockUser: the flag is set and lockoutUntil is left as it is.
lockUser_FlagOnly(us, id, until) ==
  IF id \in 1..Len(us) THEN [us EXCEPT ![id].isLocked = TRUE] ELSE us

lockUser(us, id, until) ==
  IF id \in 1..Len(us)
    THEN [us EXCEPT ![id].isLocked = TRUE, ![id].lockoutUntil = until]
    ELSE us

unlockUser(us, id) ==
  IF id \in 1..Len(us)
    THEN [us EXCEPT ![id].isLocked = FALSE, ![id].lockoutUntil = NULL_DATE,
                    ![id].failedLoginAttempts = 0]
    ELSE us

incrementFailedLogins(us, id) ==
  IF id \in 1..Len(us)
    THEN [us EXCEPT ![id].failedLoginAttempts = us[id].failedLoginAttempts + 1]
    ELSE us

resetFailedLogins(us, id) ==
  IF id \in 1..Len(us) THEN [us EXCEPT ![id].failedLoginAttempts = 0] ELSE us

\* createPasswordReset: the id is fresh (randomUUID).
createPasswordReset(resets, id, userId, token, expiresAt) ==
  Append(resets, [id |-> id, userId |-> userId, token |-> token,
                  expiresAt |-> expiresAt, used |-> FALSE])

\* Mutant of getPasswordResetByToken: a used ticket is found too.
getPasswordResetByToken_AnyUse(resets, token) ==
  LET hits == {i \in 1..Len(resets) : resets[i].token = token} IN
  IF hits = {} THEN 0 ELSE CHOOSE i \in hits : \A j \in hits : i <= j

\* getPasswordResetByToken: the place in the map of the first ticket with the
\* token that is not used, or 0.
getPasswordResetByToken(resets, token) ==
  LET hits == {i \in 1..Len(resets) : resets[i].token = token /\ ~resets[i].used} IN
  IF hits = {} THEN 0 ELSE CHOOSE i \in hits : \A j \in hits : i <= j

\* Mutant of markPasswordResetUsed: every ticket of the same account is marked.
markPasswordResetUsed_AllOfUser(resets, id) ==
  LET owners == {resets[i].userId : i \in {j \in 1..Len(resets) : resets[j].id = id}} IN
  [i \in 1..Len(resets) |->
     IF resets[i].userId \in owners THEN [resets[i] EXCEPT !.used = TRUE] ELSE resets[i]]

markPasswordResetUsed(resets, id) ==
  [i \in 1..Len(resets) |->
     IF resets[i].id = id THEN [resets[i] EXCEPT !.used = TRUE] ELSE resets[i]]

\* Mutant of ExpiredOrUsed: a ticket counts as expired at its expiry already.
ExpiredOrUsed_AtExpiry(reset, t) == reset.expiresAt <= t \/ reset.used

ExpiredOrUsed(reset, t) == reset.expiresAt < t \/ reset.used

RECURSIVE Purge(_, _)
Purge(resets, t) ==
  IF resets = <<>> THEN <<>>
  ELSE IF ExpiredOrUsed(Head(resets), t) THEN Purge(Tail(resets), t)
  ELSE <<Head(resets)>> \o Purge(Tail(resets), t)

cleanupExpiredPasswordResets == 
  /\ passwordResets' = Purge(passwordResets, now)
  /\ passwordResets' # passwordResets
  /\ UNCHANGED <<now, ticks, logFails, gameProfiles, served, rateLimitStore, reqLog, users, userSettings,
                 securityLogs, redeemed, inflight, issued, resp>>

\* utils.createSecurityLog over MemStorage.createSecurityLog: append, stamped.
\* While logFails holds the storage call throws, and utils.createSecurityLog
\* catches what it throws: nothing is stored.
createSecurityLog(logs, userId, action, t) ==
  IF logFails
    THEN logs
    ELSE Append(logs, [userId |-> userId, action |-> action, timestamp |-> t])

\* Mutant of logError: utils.createSecurityLog without its try and catch.
logError_Rethrown == logFails

\* Whether await createSecurityLog(...) throws into the handler that called it.
logError == FALSE

\* Mutant of getSecurityLogs: the filter by userId left out.
getSecurityLogs_Unfiltered(logs, userId) == logs

\* getSecurityLogs(userId?): the values of the map in insertion order, those
\* of the user when a userId is given.
getSecurityLogs(logs, userId) ==
  IF userId # NO_USER
    THEN SelectSeq(logs, LAMBDA log : log.userId = userId)
    ELSE logs

\* clearSecurityLogs(userId?): the user's entries deleted, or all of them.
clearSecurityLogs(userId) ==
  /\ securityLogs' = IF userId # NO_USER
                       THEN SelectSeq(securityLogs, LAMBDA log : log.userId # userId)
                       ELSE <<>>
  /\ securityLogs' # securityLogs
  /\ UNCHANGED <<now, ticks, logFails, gameProfiles, served, rateLimitStore, reqLog, users, userSettings,
                 passwordResets, redeemed, inflight, issued, resp>>

\* ------------------------------------------------------- bcrypt and jwt
\* bcrypt.hash(password, 12): a salted hash string, never the password.
bcryptHash(password) == [alg |-> "$2a$12$", of |-> password]

\* bcrypt.compare(password, hash)
bcryptCompare(password, hash) == hash = bcryptHash(password)

\* jwt.sign(payload, secret, {expiresIn}): iat and exp are in whole seconds.
jwtSign(payload, secret, ttl, t) ==
  [payload |-> payload, iat |-> t \div 1000, exp |-> (t \div 1000) + ttl,
   sig |-> secret]

\* jwt.verify(token, secret) does not throw: signature good and not expired.
jwtValid(token, secret, t) == token.sig = secret /\ (t \div 1000) < token.exp

\* The payload routes.ts signs at login, signup and refresh.
routesPayload(user) ==
  [userId |-> user.id, username |-> user.username,
   twoFactorEnabled |-> user.twoFactorEnabled]

\* ------------------------------------------------------ POST /auth/login
InvalidCredentials == [status |-> 401, error |-> "Invalid credentials"]

\* Mutant of UnknownUsername: an answer of its own for a username no user has.
UnknownUsername_NotFound == [status |-> 404, error |-> "User not found"]

\* The answer to a login whose username no user has.
UnknownUsername == InvalidCredentials

\* The answer to a wrong password below the lock threshold.
WrongPassword == InvalidCredentials

\* Mutant of AccountLocked: the answer carries a lockout that starts anew.
AccountLocked_Extended(until) ==
  [status |-> 423,
   error |-> "Account is temporarily locked due to too many failed login attempts",
   lockoutUntil |-> until + LOCKOUT]

AccountLocked(until) ==
  [status |-> 423,
   error |-> "Account is temporarily locked due to too many failed login attempts",
   lockoutUntil |-> until]

\* Mutant of isLockedNow: the comparison with the clock turned around.
isLockedNow_Reversed(user, t) ==
  user.isLocked /\ user.lockoutUntil # NULL_DATE /\ user.lockoutUntil < t

\* Check if user is locked (the user record as read from the store).
isLockedNow(user, t) ==
  user.isLocked /\ user.lockoutUntil # NULL_DATE /\ user.lockoutUntil > t

\* Lock account after 5 failed attempts: the test made after incrementFailedLogins,
\* on the user object the store has just updated in place.
reachedLockThreshold(user) == user.failedLoginAttempts >= LOCK_THRESHOLD

\* A response: the request it answers and what the handler sent.
Reply(id, op, req, body) == [id |-> id, op |-> op, req |-> req, body |-> body,
                             status |-> body.status]

\* The catch block of a handler.
InternalError == [status |-> 500, error |-> "Internal server error"]

\* The response of a handler whose last await before it is createSecurityLog:
\* what the call throws lands in the catch block of the handler.
ReplyLogged(id, op, req, body) ==
  Reply(id, op, req, IF logError THEN InternalError ELSE body)

\* Mutant of LoginStart: the request the rate limiter rejects is counted as
\* a failed login of the account it names.
LoginStart_CountsLimited(ip, username, password, code) ==
  LET r   == isRateLimited(rateLimitStore, ip, LOGIN_PATH, now)
      id  == served + 1
      uid == getUserByUsername(users, username)
      req == [ip |-> ip, username |-> username, password |-> password,
              code |-> code, at |-> now, userId |-> uid]
  IN
  /\ served < MaxRequests
  /\ served' = id
  /\ rateLimitStore' = r.store
  /\ UNCHANGED <<now, ticks, logFails, gameProfiles, reqLog, userSettings, issued, resetVars>>
  /\ IF r.limited
       THEN /\ resp' = Reply(id, "login", req, TooManyRequests)
            /\ users' = incrementFailedLogins(users, uid)
            /\ UNCHANGED <<securityLogs, inflight>>
     ELSE IF uid = NO_USER
       THEN /\ securityLogs' = createSecurityLog(securityLogs, NO_USER, "login_failed", now)
            /\ resp' = ReplyLogged(id, "login", req, UnknownUsername)
            /\ UNCHANGED <<users, inflight>>
     ELSE IF isLockedNow(users[uid], now)
       THEN /\ resp' = Reply(id, "login", req, AccountLocked(users[uid].lockoutUntil))
            /\ UNCHANGED <<users, securityLogs, inflight>>
     ELSE /\ Cardinality(inflight) < MaxInflight
          /\ inflight' = inflight \cup
                {[id |-> id, op |-> "login", req |-> req,
                  isValidPassword |-> bcryptCompare(password, users[uid].passwordHash)]}
          /\ UNCHANGED <<users, securityLogs, resp>>

\* From the rate limiter up to the await of bcrypt.compare.
LoginStart(ip, username, password, code) ==
  LET r   == isRateLimited(rateLimitStore, ip, LOGIN_PATH, now)
      id  == served + 1
      uid == getUserByUsername(users, username)
      req == [ip |-> ip, username |-> username, password |-> password,
              code |-> code, at |-> now, userId |-> uid]
  IN
  /\ served < MaxRequests
  /\ served' = id
  /\ rateLimitStore' = r.store
  /\ UNCHANGED <<now, ticks, logFails, gameProfiles, reqLog, userSettings, issued, resetVars>>
  /\ IF r.limited
       THEN /\ resp' = Reply(id, "login", req, TooManyRequests)
            /\ UNCHANGED <<users, securityLogs, inflight>>
     ELSE IF uid = NO_USER
       THEN /\ securityLogs' = createSecurityLog(securityLogs, NO_USER, "login_failed", now)
            /\ resp' = ReplyLogged(id, "login", req, UnknownUsername)
            /\ UNCHANGED <<users, inflight>>
     ELSE IF isLockedNow(users[uid], now)
       THEN /\ resp' = Reply(id, "login", req, AccountLocked(users[uid].lockoutUntil))
            /\ UNCHANGED <<users, securityLogs, inflight>>
     ELSE /\ Cardinality(inflight) < MaxInflight
          /\ inflight' = inflight \cup
                {[id |-> id, op |-> "login", req |-> req,
                  isValidPassword |-> bcryptCompare(password, users[uid].passwordHash)]}
          /\ UNCHANGED <<users, securityLogs, resp>>

\* Mutant of LoginResume: the code 000000 passes the second factor as well.
LoginResume_AnyCode(h) ==
  LET uid == h.req.userId IN
  /\ h \in inflight
  /\ h.op = "login"
  /\ inflight' = inflight \ {h}
  /\ UNCHANGED <<now, ticks, logFails, gameProfiles, served, rateLimitStore, reqLog, userSettings, resetVars>>
  /\ IF ~h.isValidPassword
       THEN LET failed == incrementFailedLogins(users, uid) IN
            IF reachedLockThreshold(failed[uid])
              THEN /\ users' = lockUser(failed, uid, now + LOCKOUT)
                   /\ securityLogs' = createSecurityLog(securityLogs, uid, "account_locked", now)
                   /\ resp' = ReplyLogged(h.id, "login", h.req, AccountLocked(now + LOCKOUT))
                   /\ UNCHANGED issued
              ELSE /\ users' = failed
                   /\ securityLogs' = createSecurityLog(securityLogs, uid, "login_failed", now)
                   /\ resp' = ReplyLogged(h.id, "login", h.req, WrongPassword)
                   /\ UNCHANGED issued
     ELSE IF users[uid].twoFactorEnabled /\ h.req.code = ""
       THEN /\ resp' = Reply(h.id, "login", h.req,
                             [status |-> 400,
                              error |-> "Two-factor authentication code required",
                              requires2FA |-> TRUE])
            /\ UNCHANGED <<users, securityLogs, issued>>
     ELSE IF users[uid].twoFactorEnabled /\ h.req.code \notin {"123456", "000000"}
       THEN /\ securityLogs' = createSecurityLog(securityLogs, uid, "2fa_failed", now)
            /\ resp' = ReplyLogged(h.id, "login", h.req,
                             [status |-> 401,
                              error |-> "Invalid two-factor authentication code"])
            /\ UNCHANGED <<users, issued>>
     ELSE LET unlocked == IF users[uid].isLocked THEN unlockUser(users, uid) ELSE users
              after    == updateUserLastLogin(unlocked, uid, now)
              token    == jwtSign(routesPayload(after[uid]), ROUTES_SECRET, JWT_TTL, now)
          IN
          /\ users' = after
          /\ issued' = issued \cup {token}
          /\ securityLogs' = createSecurityLog(securityLogs, uid, "login_success", now)
          /\ resp' = ReplyLogged(h.id, "login", h.req,
                           [status |-> 200, token |-> token,
                            user |-> [id |-> uid, username |-> after[uid].username,
                                      email |-> after[uid].email,
                                      lastLogin |-> after[uid].lastLogin]])

\* Mutant of LoginResume: a wrong second-factor code counts as a failed login.
LoginResume_CountsCode(h) ==
  LET uid == h.req.userId IN
  /\ h \in inflight
  /\ h.op = "login"
  /\ inflight' = inflight \ {h}
  /\ UNCHANGED <<now, ticks, logFails, gameProfiles, served, rateLimitStore, reqLog, userSettings, resetVars>>
  /\ IF ~h.isValidPassword
       THEN LET failed == incrementFailedLogins(users, uid) IN
            IF reachedLockThreshold(failed[uid])
              THEN /\ users' = lockUser(failed, uid, now + LOCKOUT)
                   /\ securityLogs' = createSecurityLog(securityLogs, uid, "account_locked", now)
                   /\ resp' = ReplyLogged(h.id, "login", h.req, AccountLocked(now + LOCKOUT))
                   /\ UNCHANGED issued
              ELSE /\ users' = failed
                   /\ securityLogs' = createSecurityLog(securityLogs, uid, "login_failed", now)
                   /\ resp' = ReplyLogged(h.id, "login", h.req, WrongPassword)
                   /\ UNCHANGED issued
     ELSE IF users[uid].twoFactorEnabled /\ h.req.code = ""
       THEN /\ resp' = Reply(h.id, "login", h.req,
                             [status |-> 400,
                              error |-> "Two-factor authentication code required",
                              requires2FA |-> TRUE])
            /\ UNCHANGED <<users, securityLogs, issued>>
     ELSE IF users[uid].twoFactorEnabled /\ h.req.code # "123456"
       THEN /\ securityLogs' = createSecurityLog(securityLogs, uid, "2fa_failed", now)
            /\ resp' = ReplyLogged(h.id, "login", h.req,
                             [status |-> 401,
                              error |-> "Invalid two-factor authentication code"])
            /\ users' = incrementFailedLogins(users, uid)
            /\ UNCHANGED issued
     ELSE LET unlocked == IF users[uid].isLocked THEN unlockUser(users, uid) ELSE users
              after    == updateUserLastLogin(unlocked, uid, now)
              token    == jwtSign(routesPayload(after[uid]), ROUTES_SECRET, JWT_TTL, now)
          IN
          /\ users' = after
          /\ issued' = issued \cup {token}
          /\ securityLogs' = createSecurityLog(securityLogs, uid, "login_success", now)
          /\ resp' = ReplyLogged(h.id, "login", h.req,
                           [status |-> 200, token |-> token,
                            user |-> [id |-> uid, username |-> after[uid].username,
                                      email |-> after[uid].email,
                                      lastLogin |-> after[uid].lastLogin]])

\* From the result of bcrypt.compare to the response.  user is the object held
\* by the store, so every read of it below sees the store as it is now.
LoginResume(h) ==
  LET uid == h.req.userId IN
  /\ h \in inflight
  /\ h.op = "login"
  /\ inflight' = inflight \ {h}
  /\ UNCHANGED <<now, ticks, logFails, gameProfiles, served, rateLimitStore, reqLog, userSettings, resetVars>>
  /\ IF ~h.isValidPassword
       THEN LET failed == incrementFailedLogins(users, uid) IN
            IF reachedLockThreshold(failed[uid])
              THEN /\ users' = lockUser(failed, uid, now + LOCKOUT)
                   /\ securityLogs' = createSecurityLog(securityLogs, uid, "account_locked", now)
                   /\ resp' = ReplyLogged(h.id, "login", h.req, AccountLocked(now + LOCKOUT))
                   /\ UNCHANGED issued
              ELSE /\ users' = failed
                   /\ securityLogs' = createSecurityLog(securityLogs, uid, "login_failed", now)
                   /\ resp' = ReplyLogged(h.id, "login", h.req, WrongPassword)
                   /\ UNCHANGED issued
     ELSE IF users[uid].twoFactorEnabled /\ h.req.code = ""
       THEN /\ resp' = Reply(h.id, "login", h.req,
                             [status |-> 400,
                              error |-> "Two-factor authentication code required",
                              requires2FA |-> TRUE])
            /\ UNCHANGED <<users, securityLogs, issued>>
     ELSE IF users[uid].twoFactorEnabled /\ h.req.code # "123456"
       THEN /\ securityLogs' = createSecurityLog(securityLogs, uid, "2fa_failed", now)
            /\ resp' = ReplyLogged(h.id, "login", h.req,
                             [status |-> 401,
                              error |-> "Invalid two-factor authentication code"])
            /\ UNCHANGED <<users, issued>>
     ELSE LET unlocked == IF users[uid].isLocked THEN unlockUser(users, uid) ELSE users
              after    == updateUserLastLogin(unlocked, uid, now)
              token    == jwtSign(routesPayload(after[uid]), ROUTES_SECRET, JWT_TTL, now)
          IN
          /\ users' = after
          /\ issued' = issued \cup {token}
          /\ securityLogs' = createSecurityLog(securityLogs, uid, "login_success", now)
          /\ resp' = ReplyLogged(h.id, "login", h.req,
                           [status |-> 200, token |-> token,
                            user |-> [id |-> uid, username |-> after[uid].username,
                                      email |-> after[uid].email,
                                      lastLogin |-> after[uid].lastLogin]])

\* bcrypt.compare rejects: the await throws into the catch block of the
\* handler, which answers 500; nothing that follows the await runs.
LoginCompareThrows(h) ==
  /\ h \in inflight
  /\ h.op = "login"
  /\ inflight' = inflight \ {h}
  /\ resp' = Reply(h.id, "login", h.req, InternalError)
  /\ UNCHANGED <<now, ticks, logFails, gameProfiles, served, rateLimitStore, reqLog, users,
                 userSettings, securityLogs, resetVars, issued>>

\* ----------------------------------------------------- POST /auth/signup
\* From the rate limiter up to the await of bcrypt.hash.
SignupStart(ip, username, email, password) ==
  LET r   == isRateLimited(rateLimitStore, ip, SIGNUP_PATH, now)
      id  == served + 1
      req == [ip |-> ip, username |-> username, email |-> email, at |-> now]
  IN
  /\ served < MaxRequests
  /\ served' = id
  /\ rateLimitStore' = r.store
  /\ UNCHANGED <<now, ticks, logFails, gameProfiles, reqLog, users, userSettings, securityLogs, issued, resetVars>>
  /\ IF r.limited
       THEN /\ resp' = Reply(id, "signup", req, TooManyRequests)
            /\ UNCHANGED inflight
     ELSE IF getUserByUsername(users, username) # NO_USER
       THEN /\ resp' = Reply(id, "signup", req,
                             [status |-> 409, error |-> "Username already exists"])
            /\ UNCHANGED inflight
     ELSE IF email # NO_EMAIL /\ findUserByEmail(users, email) # NO_USER
       THEN /\ resp' = Reply(id, "signup", req,
                             [status |-> 409, error |-> "Email already exists"])
            /\ UNCHANGED inflight
     ELSE /\ Cardinality(inflight) < MaxInflight
          /\ inflight' = inflight \cup
                {[id |-> id, op |-> "signup", req |-> req,
                  passwordHash |-> bcryptHash(password)]}
          /\ UNCHANGED resp

\* From the result of bcrypt.hash to the response.
SignupResume(h) ==
  LET created == createUser(users, h.req.username, h.req.email, h.passwordHash)
      uid     == Len(created)
      token   == jwtSign(routesPayload(created[uid]), ROUTES_SECRET, JWT_TTL, now)
  IN
  /\ h \in inflight
  /\ h.op = "signup"
  /\ inflight' = inflight \ {h}
  /\ users' = created
  /\ userSettings' = createUserSettings(userSettings, uid)
  /\ issued' = issued \cup {token}
  /\ securityLogs' = createSecurityLog(securityLogs, uid, "account_created", now)
  /\ resp' = ReplyLogged(h.id, "signup", h.req,
                   [status |-> 201, token |-> token,
                    user |-> [id |-> uid, username |-> created[uid].username,
                              email |-> created[uid].email,
                              lastLogin |-> created[uid].lastLogin]])
  /\ UNCHANGED <<now, ticks, logFails, gameProfiles, served, rateLimitStore, reqLog, resetVars>>

\* --------------------------------------- POST /auth/password-reset-request
ResetRequestAccepted ==
  [status |-> 200,
   message |-> "If an account with that email exists, a password reset link has been sent"]

\* Mutant of ResetRequestUnknownEmail: an answer that says no account has the email.
ResetRequestUnknownEmail_NotFound ==
  [status |-> 404, message |-> "No account with that email"]

\* Don't reveal if email exists or not.
ResetRequestUnknownEmail ==
  [status |-> 200,
   message |-> "If an account with that email exists, a password reset link has been sent"]

\* The token is Math.random text, taken to be fresh: here the request's id.
PasswordResetRequest(ip, email) ==
  LET r   == isRateLimited(rateLimitStore, ip, RESET_REQUEST_PATH, now)
      id  == served + 1
      uid == findUserByEmail(users, email)
      req == [ip |-> ip, email |-> email]
  IN
  /\ served < MaxResetRequests
  /\ served' = id
  /\ rateLimitStore' = r.store
  /\ UNCHANGED <<now, ticks, logFails, gameProfiles, reqLog, users, userSettings, redeemed, inflight, issued>>
  /\ IF r.limited
       THEN /\ resp' = Reply(id, "reset-request", req, TooManyRequests)
            /\ UNCHANGED <<passwordResets, securityLogs>>
     ELSE IF uid = NO_USER
       THEN /\ resp' = Reply(id, "reset-request", req, ResetRequestUnknownEmail)
            /\ UNCHANGED <<passwordResets, securityLogs>>
     ELSE /\ passwordResets' = createPasswordReset(passwordResets, id, uid, id, now + RESET_TTL)
          /\ securityLogs' = createSecurityLog(securityLogs, uid, "password_reset_requested", now)
          /\ resp' = ReplyLogged(id, "reset-request", req, ResetRequestAccepted)

\* ----------------------------------------------- POST /auth/password-reset
ResetTokenInvalid == [status |-> 400, error |-> "Invalid or expired reset token"]

ResetTokenExpired == [status |-> 400, error |-> "Reset token has expired"]

\* From the rate limiter up to the await of bcrypt.hash.
PasswordResetStart(ip, token, newPassword) ==
  LET r   == isRateLimited(rateLimitStore, ip, RESET_PATH, now)
      id  == served + 1
      at  == getPasswordResetByToken(passwordResets, token)
      req == [ip |-> ip, token |-> token]
  IN
  /\ served < MaxResetRequests
  /\ served' = id
  /\ rateLimitStore' = r.store
  /\ UNCHANGED <<now, ticks, logFails, gameProfiles, reqLog, users, userSettings, securityLogs, resetVars, issued>>
  /\ IF r.limited
       THEN /\ resp' = Reply(id, "reset", req, TooManyRequests)
            /\ UNCHANGED inflight
     ELSE IF at = 0
       THEN /\ resp' = Reply(id, "reset", req, ResetTokenInvalid)
            /\ UNCHANGED inflight
     ELSE IF passwordResets[at].expiresAt < now
       THEN /\ resp' = Reply(id, "reset", req, ResetTokenExpired)
            /\ UNCHANGED inflight
     ELSE /\ Cardinality(inflight) < MaxInflight
          /\ inflight' = inflight \cup
                {[id |-> id, op |-> "reset", req |-> req,
                  resetId |-> passwordResets[at].id,
                  userId |-> passwordResets[at].userId,
                  passwordHash |-> bcryptHash(newPassword)]}
          /\ UNCHANGED resp

\* Mutant of PasswordResetResume: the reset unlocks the account as well.
PasswordResetResume_Unlocks(h) ==
  /\ h \in inflight
  /\ h.op = "reset"
  /\ inflight' = inflight \ {h}
  /\ users' = IF h.userId \in 1..Len(users)
                THEN unlockUser([users EXCEPT ![h.userId].passwordHash = h.passwordHash],
                                h.userId)
                ELSE users
  /\ passwordResets' = markPasswordResetUsed(passwordResets, h.resetId)
  /\ redeemed' = redeemed \cup {h.req.token}
  /\ securityLogs' = createSecurityLog(securityLogs, h.userId, "password_reset_completed", now)
  /\ resp' = ReplyLogged(h.id, "reset", h.req,
                   [status |-> 200, message |-> "Password reset successfully"])
  /\ UNCHANGED <<now, ticks, logFails, gameProfiles, served, rateLimitStore, reqLog, userSettings, issued>>

\* From the result of bcrypt.hash to the response.
PasswordResetResume(h) ==
  /\ h \in inflight
  /\ h.op = "reset"
  /\ inflight' = inflight \ {h}
  /\ users' = IF h.userId \in 1..Len(users)
                THEN [users EXCEPT ![h.userId].passwordHash = h.passwordHash]
                ELSE users
  /\ passwordResets' = markPasswordResetUsed(passwordResets, h.resetId)
  /\ redeemed' = redeemed \cup {h.req.token}
  /\ securityLogs' = createSecurityLog(securityLogs, h.userId, "password_reset_completed", now)
  /\ resp' = ReplyLogged(h.id, "reset", h.req,
                   [status |-> 200, message |-> "Password reset successfully"])
  /\ UNCHANGED <<now, ticks, logFails, gameProfiles, served, rateLimitStore, reqLog, userSettings, issued>>

\* ------------------------------------------------- authenticated routes
\* A request without an Authorization header.
NO_TOKEN ==
  [payload |-> [userId |-> NO_USER, username |-> NO_NAME, twoFactorEnabled |-> FALSE],
   iat |-> 0, exp |-> 0, sig |-> ""]

\* A token for the first account that somebody else has signed.
FORGED_TOKEN ==
  [payload |-> [userId |-> 1, username |-> "alice", twoFactorEnabled |-> FALSE],
   iat |-> 0, exp |-> JWT_TTL, sig |-> "not-the-secret"]

\* authenticateToken of routes.ts: the answer that ends the request, or
\* status 200 and the decoded payload for the handler (next()).
authenticateToken(token, t) ==
  IF token = NO_TOKEN
    THEN [status |-> 401, error |-> "Access token required"]
  ELSE IF ~jwtValid(token, ROUTES_SECRET, t)
    THEN [status |-> 403, error |-> "Invalid or expired token"]
  ELSE [status |-> 200, user |-> token.payload]

\* Mutant of Logout: logging out also stamps the user's lastLogin.
Logout_TouchesUser(token) ==
  LET a   == authenticateToken(token, now)
      id  == served + 1
      req == [token |-> token, at |-> now]
  IN
  /\ served < MaxAuthRequests
  /\ served' = id
  /\ UNCHANGED <<now, ticks, logFails, gameProfiles, rateLimitStore, reqLog, userSettings, resetVars,
                 inflight, issued>>
  /\ IF a.status # 200
       THEN /\ resp' = Reply(id, "logout", req, a)
            /\ UNCHANGED <<users, securityLogs>>
     ELSE /\ users' = updateUserLastLogin(users, a.user.userId, now)
          /\ securityLogs' = createSecurityLog(securityLogs, a.user.userId, "logout", now)
          /\ resp' = ReplyLogged(id, "logout", req,
                           [status |-> 200, message |-> "Logged out successfully"])

\* POST /auth/logout
Logout(token) ==
  LET a   == authenticateToken(token, now)
      id  == served + 1
      req == [token |-> token, at |-> now]
  IN
  /\ served < MaxAuthRequests
  /\ served' = id
  /\ UNCHANGED <<now, ticks, logFails, gameProfiles, rateLimitStore, reqLog, users, userSettings, resetVars,
                 inflight, issued>>
  /\ IF a.status # 200
       THEN /\ resp' = Reply(id, "logout", req, a)
            /\ UNCHANGED securityLogs
     ELSE /\ securityLogs' = createSecurityLog(securityLogs, a.user.userId, "logout", now)
          /\ resp' = ReplyLogged(id, "logout", req,
                           [status |-> 200, message |-> "Logged out successfully"])

\* POST /auth/refresh
Refresh(token) ==
  LET a   == authenticateToken(token, now)
      id  == served + 1
      req == [token |-> token, at |-> now]
  IN
  /\ served < MaxAuthRequests
  /\ served' = id
  /\ UNCHANGED <<now, ticks, logFails, gameProfiles, rateLimitStore, reqLog, users, userSettings, securityLogs,
                 resetVars, inflight>>
  /\ IF a.status # 200
       THEN /\ resp' = Reply(id, "refresh", req, a)
            /\ UNCHANGED issued
     ELSE IF a.user.userId \notin 1..Len(users)
       THEN /\ resp' = Reply(id, "refresh", req,
                             [status |-> 401, error |-> "User not found"])
            /\ UNCHANGED issued
     ELSE LET fresh == jwtSign(routesPayload(users[a.user.userId]),
                               ROUTES_SECRET, JWT_TTL, now) IN
          /\ issued' = issued \cup {fresh}
          /\ resp' = Reply(id, "refresh", req, [status |-> 200, token |-> fresh])

\* GET /profile
GetProfile(token) ==
  LET a   == authenticateToken(token, now)
      id  == served + 1
      req == [token |-> token, at |-> now]
  IN
  /\ served < MaxAuthRequests
  /\ served' = id
  /\ UNCHANGED <<now, ticks, logFails, gameProfiles, rateLimitStore, reqLog, users, userSettings, securityLogs,
                 resetVars, inflight, issued>>
  /\ IF a.status # 200
       THEN resp' = Reply(id, "profile", req, a)
     ELSE IF a.user.userId \notin 1..Len(users)
       THEN resp' = Reply(id, "profile", req,
                          [status |-> 404, error |-> "User not found"])
     ELSE LET user == users[a.user.userId] IN
          resp' = Reply(id, "profile", req,
                        [status |-> 200,
                         user |-> [id |-> user.id, username |-> user.username,
                                   email |-> user.email,
                                   twoFactorEnabled |-> user.twoFactorEnabled,
                                   lastLogin |-> user.lastLogin]])

\* PUT /profile. The handler writes the new username into the user object it
\* got from the store before it looks at the email, so a request whose
\* email is taken is answered 409 with the username already changed.
UpdateProfile(token, username, email) ==
  LET a   == authenticateToken(token, now)
      id  == served + 1
      req == [token |-> token, username |-> username, email |-> email, at |-> now]
      uid == a.user.userId
      nameChange  == username # NO_NAME /\ username # users[uid].username
      nameTaken   == nameChange /\ getUserByUsername(users, username) # NO_USER
      renamed     == IF nameChange /\ ~nameTaken
                       THEN [users EXCEPT ![uid].username = username] ELSE users
      emailChange == email # NO_EMAIL /\ email # renamed[uid].email
      emailTaken  == emailChange /\ findUserByEmail(renamed, email) # NO_USER
      updated     == IF emailChange /\ ~emailTaken
                       THEN [renamed EXCEPT ![uid].email = email] ELSE renamed
  IN
  /\ served < MaxAccountRequests
  /\ served' = id
  /\ UNCHANGED <<now, ticks, logFails, gameProfiles, rateLimitStore, reqLog, userSettings, resetVars,
                 inflight, issued>>
  /\ IF a.status # 200
       THEN /\ resp' = Reply(id, "profile_update", req, a)
            /\ UNCHANGED <<users, securityLogs>>
     ELSE IF uid \notin 1..Len(users)
       THEN /\ resp' = Reply(id, "profile_update", req,
                             [status |-> 404, error |-> "User not found"])
            /\ UNCHANGED <<users, securityLogs>>
     ELSE IF nameTaken
       THEN /\ resp' = Reply(id, "profile_update", req,
                             [status |-> 409, error |-> "Username already exists"])
            /\ UNCHANGED <<users, securityLogs>>
     ELSE IF emailTaken
       THEN /\ users' = renamed
            /\ resp' = Reply(id, "profile_update", req,
                             [status |-> 409, error |-> "Email already exists"])
            /\ UNCHANGED securityLogs
     ELSE /\ users' = updated
          /\ securityLogs' = createSecurityLog(securityLogs, uid, "profile_updated", now)
          /\ resp' = ReplyLogged(id, "profile_update", req,
                           [status |-> 200, message |-> "Profile updated successfully",
                            user |-> [id |-> uid, username |-> updated[uid].username,
                                      email |-> updated[uid].email]])

\* GET /security-logs
GetSecurityLogs(token) ==
  LET a   == authenticateToken(token, now)
      id  == served + 1
      req == [token |-> token, at |-> now]
  IN
  /\ served < MaxAuditRequests
  /\ served' = id
  /\ UNCHANGED <<now, ticks, logFails, gameProfiles, rateLimitStore, reqLog, users, userSettings, securityLogs,
                 resetVars, inflight, issued>>
  /\ IF a.status # 200
       THEN resp' = Reply(id, "security_logs", req, a)
       ELSE resp' = Reply(id, "security_logs", req,
                          [status |-> 200,
                           logs |-> getSecurityLogs(securityLogs, a.user.userId)])

\* ---------------------------------------------------- POST /auth/2fa/setup
TwoFactorActions == {"enable", "disable", "verify"}

TwoFactorSetup(token, action, code) ==
  LET a   == authenticateToken(token, now)
      id  == served + 1
      req == [token |-> token, action |-> action, code |-> code, at |-> now]
  IN
  /\ served < MaxRequests
  /\ served' = id
  /\ UNCHANGED <<now, ticks, logFails, gameProfiles, rateLimitStore, reqLog, userSettings, resetVars,
                 inflight, issued>>
  /\ IF a.status # 200
       THEN /\ resp' = Reply(id, "2fa_setup", req, a)
            /\ UNCHANGED <<users, securityLogs>>
     ELSE IF a.user.userId \notin 1..Len(users)
       THEN /\ resp' = Reply(id, "2fa_setup", req, [status |-> 404, error |-> "User not found"])
            /\ UNCHANGED <<users, securityLogs>>
     ELSE IF action = "enable"
       THEN /\ users' = updateUser2FA(users, a.user.userId, TRUE)
            /\ securityLogs' = createSecurityLog(securityLogs, a.user.userId, "2fa_enabled", now)
            /\ resp' = ReplyLogged(id, "2fa_setup", req,
                             [status |-> 200, message |-> "2FA enabled successfully",
                              requiresVerification |-> TRUE])
     ELSE IF action = "disable"
       THEN /\ users' = updateUser2FA(users, a.user.userId, FALSE)
            /\ securityLogs' = createSecurityLog(securityLogs, a.user.userId, "2fa_disabled", now)
            /\ resp' = ReplyLogged(id, "2fa_setup", req,
                             [status |-> 200, message |-> "2FA disabled successfully"])
     ELSE IF code = ""
       THEN /\ resp' = Reply(id, "2fa_setup", req,
                             [status |-> 400, error |-> "Verification code required"])
            /\ UNCHANGED <<users, securityLogs>>
     ELSE IF code = "123456"
       THEN /\ securityLogs' = createSecurityLog(securityLogs, a.user.userId, "2fa_verified", now)
            /\ resp' = ReplyLogged(id, "2fa_setup", req,
                             [status |-> 200, message |-> "2FA verification successful"])
            /\ UNCHANGED users
     ELSE /\ securityLogs' = createSecurityLog(securityLogs, a.user.userId,
                                               "2fa_verification_failed", now)
          /\ resp' = ReplyLogged(id, "2fa_setup", req,
                           [status |-> 400, error |-> "Invalid verification code"])
          /\ UNCHANGED users

\* ---------------------------------------------------------- game profiles
\* A profile is [id, userId, name, isActive]; the id of a profile is its place
\* in the map.  The constructor of MemStorage stores the default profiles.
initializeGameProfiles ==
  <<[id |-> 1, userId |-> NO_USER, name |-> "Valorant", isActive |-> TRUE],
    [id |-> 2, userId |-> NO_USER, name |-> "Fortnite", isActive |-> FALSE],
    [id |-> 3, userId |-> NO_USER, name |-> "Minecraft", isActive |-> FALSE]>>

\* Request bodies: isActive is optional.
ProfileBodies ==
  {[name |-> "Apex"], [name |-> "Apex", isActive |-> TRUE],
   [name |-> "Apex", isActive |-> FALSE]}

ProfileUpdates == {[name |-> "Apex"], [isActive |-> TRUE], [isActive |-> FALSE]}

\* { ...a, ...b }
Spread(a, b) ==
  [f \in DOMAIN a \cup DOMAIN b |-> IF f \in DOMAIN b THEN b[f] ELSE a[f]]

\* insertProfile.isActive ?? false
createGameProfile(profiles, insertProfile) ==
  Append(profiles,
         Spread(insertProfile,
                [id |-> Len(profiles) + 1,
                 isActive |-> IF "isActive" \in DOMAIN insertProfile
                                THEN insertProfile.isActive ELSE FALSE]))

updateGameProfile(profiles, id, updates) ==
  IF id \in 1..Len(profiles)
    THEN [profiles EXCEPT ![id] = Spread(profiles[id], updates)]
    ELSE profiles

\* The loop of the route over storage.getGameProfiles(): every profile but
\* the one with the id is updated with { isActive: false }.
DeactivateOthers(profiles, id) ==
  [i \in 1..Len(profiles) |->
     IF profiles[i].id # id THEN Spread(profiles[i], [isActive |-> FALSE])
     ELSE profiles[i]]

\* PUT /api/game-profiles/:id (no authentication)
PutGameProfile(id, updates) ==
  LET rid    == served + 1
      req    == [id |-> id, updates |-> updates, at |-> now]
      others == IF "isActive" \in DOMAIN updates /\ updates.isActive
                  THEN DeactivateOthers(gameProfiles, id) ELSE gameProfiles
  IN
  /\ served < MaxRequests
  /\ served' = rid
  /\ gameProfiles' = updateGameProfile(others, id, updates)
  /\ resp' = IF id \in 1..Len(gameProfiles)
               THEN Reply(rid, "put_game_profile", req,
                          [status |-> 200, profile |-> gameProfiles'[id]])
               ELSE Reply(rid, "put_game_profile", req,
                          [status |-> 404, error |-> "Game profile not found"])
  /\ UNCHANGED <<now, ticks, logFails, rateLimitStore, reqLog, users, userSettings,
                 securityLogs, resetVars, inflight, issued>>

\* POST /games/profiles
PostGameProfile(token, body) ==
  LET a   == authenticateToken(token, now)
      rid == served + 1
      req == [token |-> token, body |-> body, at |-> now]
  IN
  /\ served < MaxRequests
  /\ served' = rid
  /\ UNCHANGED <<now, ticks, logFails, rateLimitStore, reqLog, users, userSettings,
                 securityLogs, resetVars, inflight, issued>>
  /\ IF a.status # 200
       THEN /\ resp' = Reply(rid, "post_game_profile", req, a)
            /\ UNCHANGED gameProfiles
       ELSE /\ gameProfiles' = createGameProfile(gameProfiles,
                                   Spread(body, [userId |-> a.user.userId]))
            /\ resp' = Reply(rid, "post_game_profile", req,
                             [status |-> 200,
                              profile |-> gameProfiles'[Len(gameProfiles')]])

\* ------------------------------------------------ auth.ts, token helpers
\* What verifyToken returns for a token jwt.verify throws on.
NULL_PAYLOAD == [userId |-> NO_USER, username |-> NO_NAME, iat |-> 0, exp |-> 0]

\* generateToken(user)
generateToken(user, t) ==
  jwtSign([userId |-> user.id, username |-> user.username], JWT_SECRET, JWT_TTL, t)

\* Mutant of verifyToken: the payload is decoded and the expiry not looked at.
verifyToken_IgnoresExpiry(token, t) ==
  IF token.sig = JWT_SECRET
    THEN [userId |-> token.payload.userId, username |-> token.payload.username,
          iat |-> token.iat, exp |-> token.exp]
    ELSE NULL_PAYLOAD

\* verifyToken(token): the JWTPayload, or null where jwt.verify throws.
verifyToken(token, t) ==
  IF jwtValid(token, JWT_SECRET, t)
    THEN [userId |-> token.payload.userId, username |-> token.payload.username,
          iat |-> token.iat, exp |-> token.exp]
    ELSE NULL_PAYLOAD

\* authenticateToken of auth.ts, second definition: the answer that ends the
\* request, or status 200 and the payload for the handler (next()).
authenticateTokenPayload(token, t) ==
  LET payload == verifyToken(token, t) IN
  IF token = NO_TOKEN
    THEN [status |-> 401, success |-> FALSE, message |-> "Access token required"]
  ELSE IF payload = NULL_PAYLOAD
    THEN [status |-> 403, success |-> FALSE, message |-> "Invalid or expired token"]
  ELSE [status |-> 200, user |-> payload]

\* const token = generateToken(user), for the account with the id.
IssueToken(uid) ==
  LET id    == served + 1
      token == generateToken(users[uid], now)
  IN
  /\ served < MaxTokenRequests
  /\ uid \in 1..Len(users)
  /\ served' = id
  /\ issued' = issued \cup {token}
  /\ resp' = Reply(id, "issue",
                   [userId |-> users[uid].id, username |-> users[uid].username, at |-> now],
                   [status |-> 200, token |-> token])
  /\ UNCHANGED <<now, ticks, logFails, gameProfiles, rateLimitStore, reqLog, users, userSettings, securityLogs,
                 resetVars, inflight>>

\* GET /api/auth/me behind authenticateToken of auth.ts.
AuthMe(token) ==
  LET a   == authenticateTokenPayload(token, now)
      id  == served + 1
      req == [token |-> token, at |-> now]
  IN
  /\ served < MaxTokenRequests
  /\ served' = id
  /\ UNCHANGED <<now, ticks, logFails, gameProfiles, rateLimitStore, reqLog, users, userSettings, securityLogs,
                 resetVars, inflight, issued>>
  /\ IF a.status # 200
       THEN resp' = Reply(id, "me", req, a)
     ELSE IF a.user.userId \notin 1..Len(users)
       THEN resp' = Reply(id, "me", req,
                          [status |-> 404, success |-> FALSE, message |-> "User not found"])
     ELSE LET user == users[a.user.userId] IN
          resp' = Reply(id, "me", req,
                        [status |-> 200, success |-> TRUE,
                         user |-> [id |-> user.id, username |-> user.username,
                                   email |-> user.email]])

\* ----------------------------------------------------------------- clock
\* Date.now() moves on by d milliseconds.
Elapse(d) ==
  /\ ticks < MaxTicks
  /\ ticks' = ticks + 1
  /\ now' = now + d
  /\ UNCHANGED <<logFails, gameProfiles, served, rateLimitStore, reqLog>>
  /\ UNCHANGED handlerVars

\* ------------------------------------------------------- storage faults
\* storage.createSecurityLog starts, or stops, throwing.
SetLogFails(fails) ==
  /\ logFails # fails
  /\ logFails' = fails
  /\ UNCHANGED <<now, ticks, gameProfiles, served, rateLimitStore, reqLog>>
  /\ UNCHANGED handlerVars

\* ------------------------------------------------------------------ init
Init ==
  /\ now = 0
  /\ ticks = 0
  /\ logFails = FALSE
  /\ gameProfiles = initializeGameProfiles
  /\ served = 0
  /\ rateLimitStore = <<>>
  /\ reqLog = <<>>
  /\ users = <<>>
  /\ userSettings = <<>>
  /\ securityLogs = <<>>
  /\ passwordResets = <<>>
  /\ redeemed = {}
  /\ inflight = {}
  /\ issued = {}
  /\ resp = [id |-> 0, op |-> "none", req |-> <<>>, body |-> <<>>, status |-> 0]

\* ------------------------------------------- specification: rate limiter
NextRate ==
  \/ \E ip \in IPs : rateLimiter(ip, LOGIN_PATH)
  \/ \E d \in {1, WINDOW} : Elapse(d)

SpecRate == Init /\ [][NextRate]_vars

\* ------------------------------------------------- specification: login
\* The store once alice has signed up from 10.0.0.1 at time 0: what
\* SignupStart and SignupResume leave when they run from Init.
AliceSignup ==
  [id |-> 1, op |-> "signup",
   req |-> [ip |-> "10.0.0.1", username |-> "alice", email |-> NO_EMAIL],
   passwordHash |-> bcryptHash("Passw0rd1")]

InitLogin ==
  LET created == createUser(<<>>, "alice", NO_EMAIL, bcryptHash("Passw0rd1"))
      token   == jwtSign(routesPayload(created[1]), ROUTES_SECRET, JWT_TTL, 0)
  IN
  /\ now = 0
  /\ ticks = 0
  /\ logFails = FALSE
  /\ gameProfiles = initializeGameProfiles
  /\ served = 1
  /\ rateLimitStore = isRateLimited(<<>>, "10.0.0.1", SIGNUP_PATH, 0).store
  /\ reqLog = <<>>
  /\ users = created
  /\ userSettings = createUserSettings(<<>>, 1)
  /\ securityLogs = createSecurityLog(<<>>, 1, "account_created", 0)
  /\ passwordResets = <<>>
  /\ redeemed = {}
  /\ inflight = {}
  /\ issued = {token}
  /\ resp = Reply(1, "signup", AliceSignup.req,
                  [status |-> 201, token |-> token,
                   user |-> [id |-> 1, username |-> "alice", email |-> NO_EMAIL,
                             lastLogin |-> NULL_DATE]])

\* Logins from one client address, one request at a time: as alice with the
\* right or a wrong password, and as bob, who has no account.
NextLogin ==
  \/ /\ inflight = {}
     /\ served < MaxLoginRequests
     /\ \E c \in {<<"alice", "Passw0rd1">>, <<"alice", "Passw0rd2">>,
                   <<"bob", "Passw0rd1">>} :
          LoginStart("10.0.0.1", c[1], c[2], "")
  \/ \E h \in inflight : LoginResume(h)
  \/ \E d \in {1, WINDOW} : Elapse(d)

SpecLogin == InitLogin /\ [][NextLogin]_vars

\* ---------------------------------------- specification: password reset
\* The store once alice has signed up with an email address at time 0.
InitReset ==
  LET created == createUser(<<>>, "alice", "alice@example.com", bcryptHash("Passw0rd1"))
      token   == jwtSign(routesPayload(created[1]), ROUTES_SECRET, JWT_TTL, 0)
      req     == [ip |-> "10.0.0.1", username |-> "alice", email |-> "alice@example.com"]
  IN
  /\ now = 0
  /\ ticks = 0
  /\ logFails = FALSE
  /\ gameProfiles = initializeGameProfiles
  /\ served = 1
  /\ rateLimitStore = isRateLimited(<<>>, "10.0.0.1", SIGNUP_PATH, 0).store
  /\ reqLog = <<>>
  /\ users = created
  /\ userSettings = createUserSettings(<<>>, 1)
  /\ securityLogs = createSecurityLog(<<>>, 1, "account_created", 0)
  /\ passwordResets = <<>>
  /\ redeemed = {}
  /\ inflight = {}
  /\ issued = {token}
  /\ resp = Reply(1, "signup", req,
                  [status |-> 201, token |-> token,
                   user |-> [id |-> 1, username |-> "alice",
                             email |-> "alice@example.com",
                             lastLogin |-> NULL_DATE]])

\* The reset tokens a client can hold: those of the tickets in the store and
\* those already redeemed; 0 stands for any text that is no ticket's token.
KnownResetTokens ==
  {passwordResets[i].token : i \in 1..Len(passwordResets)} \cup redeemed

\* Reset requests and redemptions, one request at a time, and the sweep.
NextResetSeq ==
  \/ /\ inflight = {}
     /\ \E e \in {"alice@example.com", "nobody@example.com"} :
          PasswordResetRequest("10.0.0.1", e)
  \/ /\ inflight = {}
     /\ \E t \in KnownResetTokens \cup {0} : PasswordResetStart("10.0.0.1", t, "Passw0rd2")
  \/ \E h \in inflight : PasswordResetResume(h)
  \/ cleanupExpiredPasswordResets
  \/ \E d \in {1, RESET_TTL} : Elapse(d)

SpecResetSeq == InitReset /\ [][NextResetSeq]_vars

\* ------------------------------- specification: signup and profile update
\* Signups that overlap at bcrypt.hash, and changes of username and email.
Bearers == issued \cup {NO_TOKEN, FORGED_TOKEN}

NextAccounts ==
  \/ /\ served < MaxAccountRequests
     /\ \E u \in Usernames : SignupStart("10.0.0.1", u, NO_EMAIL, "Passw0rd1")
  \/ \E h \in inflight : SignupResume(h)
  \/ \E token \in Bearers, u \in Usernames \cup {NO_NAME}, e \in Emails \cup {NO_EMAIL} :
       UpdateProfile(token, u, e)
  \/ Elapse(WINDOW)

SpecAccounts == Init /\ [][NextAccounts]_vars

\* ------------------------------------ specification: authenticated routes
\* alice, signed up at time 0, uses, refreshes and logs out her tokens while
\* the clock goes up to and past their expiry.
NextSession ==
  \/ \E token \in Bearers : Logout(token)
  \/ \E token \in Bearers : Refresh(token)
  \/ \E token \in Bearers : GetProfile(token)
  \/ \E d \in {1, (JWT_TTL - 1) * 1000, JWT_TTL * 1000} : Elapse(d)

SpecSession == InitLogin /\ [][NextSession]_vars

\* ------------------------------------------ specification: auth.ts tokens
\* Accounts come from signups, one at a time; generateToken is applied to
\* them and the tokens are presented to the middleware of auth.ts while the
\* clock goes up to and past their expiry.
NextToken ==
  \/ /\ inflight = {}
     /\ \E u \in Usernames : SignupStart("10.0.0.1", u, NO_EMAIL, "Passw0rd1")
  \/ \E h \in inflight : SignupResume(h)
  \/ \E uid \in 1..Len(users) : IssueToken(uid)
  \/ \E token \in Bearers : AuthMe(token)
  \/ \E d \in {1, (JWT_TTL - 1) * 1000, JWT_TTL * 1000} : Elapse(d)

SpecToken == Init /\ [][NextToken]_vars

\* ------------------------------------------- specification: security log
\* Signups, logins and logouts, one request at a time, that write the
\* security log; the log read by its owner and cleared.
NextAudit ==
  \/ /\ inflight = {}
     /\ served < MaxAuditRequests
     /\ \/ \E u \in Usernames : SignupStart("10.0.0.1", u, NO_EMAIL, "Passw0rd1")
        \/ \E u \in Usernames, p \in Passwords : LoginStart("10.0.0.1", u, p, "")
        \/ \E token \in issued : Logout(token)
  \/ \E h \in inflight : SignupResume(h)
  \/ \E h \in inflight : LoginResume(h)
  \/ \E token \in Bearers : GetSecurityLogs(token)
  \/ \E uid \in {NO_USER} \cup (1..Len(users)) : clearSecurityLogs(uid)

SpecAudit == Init /\ [][NextAudit]_vars

\* ---------------------------- specification: security log that fails
\* alice, who has an email address, logs in and resets her password, one
\* request at a time, while the storage of log entries fails and recovers.
NextLogFailure ==
  \/ /\ inflight = {}
     /\ served < MaxLogFailRequests
     /\ \/ \E u \in Usernames, p \in Passwords : LoginStart("10.0.0.1", u, p, "")
        \/ \E e \in {"alice@example.com", "nobody@example.com"} :
             PasswordResetRequest("10.0.0.1", e)
        \/ \E t \in KnownResetTokens \cup {0} : PasswordResetStart("10.0.0.1", t, "Passw0rd2")
  \/ \E h \in inflight : LoginResume(h)
  \/ \E h \in inflight : PasswordResetResume(h)
  \/ \E fails \in BOOLEAN : SetLogFails(fails)

SpecLogFailure == InitReset /\ [][NextLogFailure]_vars

\* ------------------------------- specification: login, compare may throw
\* The logins of NextLogin, where bcrypt.compare may reject.
NextLoginFault ==
  \/ NextLogin
  \/ \E h \in inflight : LoginCompareThrows(h)

SpecLoginFault == InitLogin /\ [][NextLoginFault]_vars

\* ---------------------------- specification: password resets that overlap
\* Reset requests for alice, and redemptions of her tokens that overlap at
\* bcrypt.hash.
NextResetConc ==
  \/ PasswordResetRequest("10.0.0.1", "alice@example.com")
  \/ \E t \in KnownResetTokens, p \in Passwords : PasswordResetStart("10.0.0.1", t, p)
  \/ \E h \in inflight : PasswordResetResume(h)

SpecResetConc == InitReset /\ [][NextResetConc]_vars

\* --------------------------------------- specification: logins that overlap
\* Logins as alice, with the right or a wrong password, that overlap at
\* bcrypt.compare.
NextLoginConc ==
  \/ \E p \in Passwords : LoginStart("10.0.0.1", "alice", p, "")
  \/ \E h \in inflight : LoginResume(h)

SpecLoginConc == InitLogin /\ [][NextLoginConc]_vars

\* ------------------------------ specification: logins up to the rate limit
\* Logins from one client address within one window, one request at a time:
\* the 6th is more than the rate limiter lets through.
NextLoginLimited ==
  \/ /\ inflight = {}
     /\ \E c \in {<<"alice", "Passw0rd1">>, <<"alice", "Passw0rd2">>,
                   <<"bob", "Passw0rd1">>} :
          LoginStart("10.0.0.1", c[1], c[2], "")
  \/ \E h \in inflight : LoginResume(h)

SpecLoginLimited == InitLogin /\ [][NextLoginLimited]_vars

\* ------------------------ specification: password reset of a locked account
\* Logins as alice and a password reset for her that overlap: the account
\* can be locked while the reset is awaiting bcrypt.hash.
NextLockedReset ==
  \/ \E p \in Passwords : LoginStart("10.0.0.1", "alice", p, "")
  \/ \E h \in inflight : LoginResume(h)
  \/ PasswordResetRequest("10.0.0.1", "alice@example.com")
  \/ \E t \in KnownResetTokens : PasswordResetStart("10.0.0.1", t, "Passw0rd2")
  \/ \E h \in inflight : PasswordResetResume(h)

SpecLockedReset == InitReset /\ [][NextLockedReset]_vars

\* ------------------------------------------- specification: second factor
\* alice switches the second factor on and off with the token of her signup
\* while logins as alice, with and without a code, are under way.
NextTwoFactor ==
  \/ /\ served < MaxTwoFactorRequests
     /\ \E p \in Passwords, c \in Codes : LoginStart("10.0.0.1", "alice", p, c)
  \/ \E h \in inflight : LoginResume(h)
  \/ /\ served < MaxTwoFactorRequests
     /\ \E t \in issued, a \in TwoFactorActions, c \in {"", "123456"} :
          TwoFactorSetup(t, a, c)

SpecTwoFactor == InitLogin /\ [][NextTwoFactor]_vars

\* --------------------------------------------- specification: game profiles
\* alice creates profiles with the token of her signup, and profiles, known
\* and unknown, are updated through the unauthenticated route.
NextProfiles ==
  \/ /\ served < MaxProfileRequests
     /\ \E t \in Bearers, b \in ProfileBodies : PostGameProfile(t, b)
  \/ /\ served < MaxProfileRequests
     /\ \E id \in 1..(Len(gameProfiles) + 1), u \in ProfileUpdates : PutGameProfile(id, u)

SpecProfiles == InitLogin /\ [][NextProfiles]_vars

\* ================================================================ claims
\* The response sent last answers a login as an existing user.
LoginReplyFor(uid) ==
  /\ resp.op = "login"
  /\ resp.req.userId = uid
  /\ uid \in 1..Len(users)

\* The response sent last answers a login whose password is not the user's.
WrongPasswordReply(uid) ==
  /\ LoginReplyFor(uid)
  /\ ~bcryptCompare(resp.req.password, users[uid].passwordHash)

\* C1: a wrong-password login that brings failedLoginAttempts to 1..4 is answered
\* InvalidCredentials (401) and leaves the account unlocked; the one that brings
\* it to 5 locks the account until now + 15 min.  (The statement of the claim:
\* the code locks on the 4th failure.)
C1_LockOnFifthFailure ==
  [][\A uid \in 1..Len(users) :
       (~users[uid].isLocked
          /\ users'[uid].failedLoginAttempts = users[uid].failedLoginAttempts + 1)
       => IF users'[uid].failedLoginAttempts < 5
            THEN resp'.status = 401 /\ ~users'[uid].isLocked
            ELSE users'[uid].isLocked /\ users'[uid].lockoutUntil = now + LOCKOUT]_vars

\* C2: a login request for an account that is locked, with now < lockoutUntil,
\* and that the rate limiter lets through is answered AccountLocked (423) at
\* once: no handler is left to compare the password and no token is issued,
\* whatever the password.
C2_LockedAccountRejected ==
  [][\A uid \in 1..Len(users) :
       (served' = served + 1 /\ users[uid].isLocked /\ now < users[uid].lockoutUntil)
       => /\ \A h \in inflight' \ inflight : h.req.userId # uid
          /\ issued' = issued
          /\ (resp'.id = served' /\ resp'.op = "login" /\ resp'.req.userId = uid
                /\ resp'.status # 429)
             => resp'.body = AccountLocked(users[uid].lockoutUntil)]_vars

\* C2 witness: a login with the right password was answered 423 while the
\* account is locked.
C2_Witness ==
  \E uid \in 1..Len(users) :
    /\ LoginReplyFor(uid)
    /\ resp.status = 423
    /\ bcryptCompare(resp.req.password, users[uid].passwordHash)
    /\ users[uid].isLocked
    /\ now < users[uid].lockoutUntil

\* C3: after a login that is answered with a token, the account's
\* failedLoginAttempts is 0.  (The statement of the claim: the code resets the
\* counter only when it unlocks the account.)
C3_SuccessResetsFailedAttempts ==
  \A uid \in 1..Len(users) :
    (LoginReplyFor(uid) /\ resp.status = 200)
    => users[uid].failedLoginAttempts = 0

\* C7 as stated: every failed login, for an unknown username or with a wrong
\* password for an existing one, is answered InvalidCredentials (401).
C7_FailedLoginsIndistinguishable ==
  /\ (resp.op = "login" /\ resp.req.userId = NO_USER /\ resp.status # 429)
     => resp.body = InvalidCredentials
  /\ \A uid \in 1..Len(users) :
       (WrongPasswordReply(uid) /\ resp.status # 429)
       => resp.body = InvalidCredentials

\* C7 amended: a login for an unknown username is answered InvalidCredentials;
\* a wrong password for an existing username gets the same response unless the
\* attempt finds the account locked or locks it, and then it gets
\* AccountLocked (423).
C7_IndistinguishableUnlessLocked ==
  /\ (resp.op = "login" /\ resp.req.userId = NO_USER /\ resp.status # 429)
     => resp.body = InvalidCredentials
  /\ \A uid \in 1..Len(users) :
       (WrongPasswordReply(uid) /\ resp.status # 429)
       => IF users[uid].isLocked
            THEN resp.body = AccountLocked(users[uid].lockoutUntil)
            ELSE resp.body = InvalidCredentials

\* C7 witness: a wrong password for alice was answered InvalidCredentials, after
\* a login for a username without an account had been.
C7_Witness ==
  /\ \E uid \in 1..Len(users) :
       WrongPasswordReply(uid) /\ resp.body = InvalidCredentials
  /\ \E i \in 1..Len(securityLogs) :
       securityLogs[i].action = "login_failed" /\ securityLogs[i].userId = NO_USER

\* ------------------------------------------------------------------ C4
\* The window the i-th request of the log falls in, counted from the log alone:
\* start is the time of the request that opened the window, n the number of
\* requests for the same key in it up to and including the i-th.  A request
\* opens a window when its key has none, or when more than 15 minutes have
\* passed since the window's start.
RECURSIVE WindowAt(_, _)
WindowAt(log, i) ==
  LET before == {j \in 1..(i - 1) : log[j].ip = log[i].ip /\ log[j].path = log[i].path}
  IN
  IF before = {}
    THEN [start |-> log[i].at, n |-> 1]
    ELSE LET j == CHOOSE x \in before : \A y \in before : y <= x
             w == WindowAt(log, j)
         IN IF log[i].at - w.start > 900000
              THEN [start |-> log[i].at, n |-> 1]
              ELSE [start |-> w.start, n |-> w.n + 1]

\* The i-th request is the last one of its key in the log.
LastOfKey(log, i) ==
  \A j \in (i + 1)..Len(log) : log[j].ip # log[i].ip \/ log[j].path # log[i].path

\* C4: for every key, the first 5 requests of a window are passed on and the
\* 6th is rejected with 429; the request that opens a window leaves the key's
\* record at count = 1, firstAttempt = its time.
C4_FiveThenReject ==
  \A i \in 1..Len(reqLog) :
    LET w == WindowAt(reqLog, i) IN
    /\ w.n <= 5 => reqLog[i].status = 200
    /\ w.n = 6 => reqLog[i].status = 429
    /\ (w.n = 1 /\ LastOfKey(reqLog, i))
       => rateLimitStore[<<reqLog[i].ip, reqLog[i].path>>]
            = [count |-> 1, firstAttempt |-> reqLog[i].at]

\* C4 witness: a key whose 6th request was rejected has, more than 15 minutes
\* after the window's start, a request accepted that opened a new window.
C4_Witness ==
  \E i, j \in 1..Len(reqLog) :
    /\ i < j
    /\ reqLog[i].ip = reqLog[j].ip
    /\ reqLog[i].status = 429
    /\ WindowAt(reqLog, i).n = 6
    /\ WindowAt(reqLog, j).n = 1
    /\ reqLog[j].status = 200
    /\ LastOfKey(reqLog, j)
    /\ rateLimitStore[<<reqLog[j].ip, reqLog[j].path>>].count = 1

\* ------------------------------------------------------------------ C5
\* C5: one request at a time, once a redemption of a token was answered with
\* success, a later redemption request with that token that passes the rate
\* limiter is answered ResetTokenInvalid (400), starts no handler and leaves
\* every password hash as it is; and no redemption succeeds for a token that
\* was redeemed before.
C5_RedeemedOnce ==
  [][/\ \A t \in redeemed :
          served' = served + 1
          => /\ \A h \in inflight' \ inflight : ~(h.op = "reset" /\ h.req.token = t)
             /\ (resp'.id = served' /\ resp'.op = "reset" /\ resp'.req.token = t
                   /\ resp'.status # 429)
                => /\ resp'.body = [status |-> 400,
                                    error |-> "Invalid or expired reset token"]
                   /\ users' = users
     /\ (resp'.id # resp.id /\ resp'.op = "reset" /\ resp'.status = 200)
        => resp'.req.token \notin redeemed]_vars

\* C5 witness: a second redemption of a redeemed token was answered 400, the
\* account holding the hash the first redemption set.
C5_Witness ==
  /\ resp.op = "reset"
  /\ resp.status = 400
  /\ resp.req.token \in redeemed
  /\ users[1].passwordHash = bcryptHash("Passw0rd2")

\* ------------------------------------------------------------------ C8
\* C8: every reset request that passes the rate limiter gets the same generic
\* success response, whether or not a user has the email; when none has, no
\* ticket is created.
C8_ResetRequestGeneric ==
  [][(resp'.id # resp.id /\ resp'.op = "reset-request" /\ resp'.status # 429)
       => /\ resp'.body =
               [status |-> 200,
                message |-> "If an account with that email exists, a password reset link has been sent"]
          /\ (\A i \in 1..Len(users) : users[i].email # resp'.req.email)
             => passwordResets' = passwordResets]_vars

\* C8 witness: a request for an email no user has was answered with success,
\* after one for alice's email had created a ticket; the store holds that one
\* ticket only.
C8_Witness ==
  /\ resp.op = "reset-request"
  /\ resp.status = 200
  /\ \A i \in 1..Len(users) : users[i].email # resp.req.email
  /\ Len(passwordResets) = 1
  /\ passwordResets[1].userId = 1

\* ------------------------------------------------------------------ C6
\* C6: in every reachable state no two accounts have the same username,
\* whatever the interleaving of signup handlers and profile-update handlers
\* at their await points.
C6_UniqueUsernames ==
  \A i, j \in 1..Len(users) : i # j => users[i].username # users[j].username

\* ------------------------------------------------------------------ C9
\* C9: for every account, verifyToken(generateToken(account)) evaluated
\* before 7 days have gone by since the token's issued-at second returns a
\* payload with that account's id and username; evaluated from then on it
\* returns the null payload, and authenticateToken of auth.ts answers the
\* request that carries the token 403.
C9_VerifyIssue ==
  /\ resp.op = "issue" =>
       LET token   == resp.body.token
           payload == verifyToken(token, now)
       IN
       IF (now \div 1000) < (resp.req.at \div 1000) + 604800
         THEN /\ payload # NULL_PAYLOAD
              /\ payload.userId = resp.req.userId
              /\ payload.username = resp.req.username
         ELSE /\ payload = NULL_PAYLOAD
              /\ authenticateTokenPayload(token, now).status = 403
  /\ (resp.op = "me" /\ resp.req.token \in issued /\ resp.req.token.sig = JWT_SECRET) =>
       IF (resp.req.at \div 1000) < resp.req.token.iat + 604800
         THEN /\ resp.status = 200
              /\ resp.body.user.id = resp.req.token.payload.userId
         ELSE resp.status = 403

\* C9, its case: a token generateToken made for an account was presented
\* after its 7 days and the middleware answered 403.
C9_Witness ==
  /\ resp.op = "me"
  /\ resp.status = 403
  /\ resp.req.token \in issued
  /\ resp.req.token.sig = JWT_SECRET
  /\ resp.req.token.payload.userId \in 1..Len(users)
  /\ users[resp.req.token.payload.userId].username = resp.req.token.payload.username
  /\ (resp.req.at \div 1000) >= resp.req.token.iat + 604800

\* ----------------------------------------------------------------- C10
\* C10: a logout that succeeds changes nothing on the server but the security
\* log, which gets one logout entry for the user; and the request that
\* follows a logout with the same token, before the token's expiry, is let
\* through by authenticateToken.
C10_LogoutFrame ==
  [][/\ (resp'.id # resp.id /\ resp'.op = "logout" /\ resp'.status = 200)
          => /\ users' = users
             /\ userSettings' = userSettings
             /\ passwordResets' = passwordResets
             /\ rateLimitStore' = rateLimitStore
             /\ inflight' = inflight
             /\ issued' = issued
             /\ securityLogs' = Append(securityLogs,
                                       [userId |-> resp'.req.token.payload.userId,
                                        action |-> "logout", timestamp |-> now])
     /\ (/\ resp.op = "logout" /\ resp.status = 200
         /\ resp'.id # resp.id
         /\ resp'.op \in {"logout", "refresh", "profile"}
         /\ resp'.req.token = resp.req.token
         /\ (now \div 1000) < resp.req.token.exp)
          => resp'.status = 200]_vars

\* C10, its case: the only token there is was used to log out and, later,
\* to read the profile, and the profile was served.
C10_Witness ==
  /\ resp.op = "profile"
  /\ resp.status = 200
  /\ issued = {resp.req.token}
  /\ Len(securityLogs) >= 2
  /\ securityLogs[Len(securityLogs)].action = "logout"
  /\ securityLogs[Len(securityLogs)].userId = resp.req.token.payload.userId
  /\ securityLogs[Len(securityLogs)].timestamp < resp.req.at

\* ----------------------------------------------------------------- C11
\* The entries of the log that carry the account's id, oldest first.
RECURSIVE OwnEntries(_, _)
OwnEntries(logs, uid) ==
  IF logs = <<>> THEN <<>>
  ELSE IF Head(logs).userId = uid
    THEN <<Head(logs)>> \o OwnEntries(Tail(logs), uid)
    ELSE OwnEntries(Tail(logs), uid)

\* The entries of the log that do not carry the account's id, oldest first.
RECURSIVE OthersEntries(_, _)
OthersEntries(logs, uid) ==
  IF logs = <<>> THEN <<>>
  ELSE IF Head(logs).userId = uid
    THEN OthersEntries(Tail(logs), uid)
    ELSE <<Head(logs)>> \o OthersEntries(Tail(logs), uid)

\* C11: a step either leaves the security log alone, or adds entries at its
\* end, or removes the entries of one account (or all of them), and the
\* entries that stay keep their fields and their order; and GET /security-logs
\* answers with the entries of the caller's account that are in the log, in
\* the order they were recorded.
C11_LogByAccount ==
  [][/\ \/ securityLogs' = securityLogs
        \/ /\ Len(securityLogs') > Len(securityLogs)
           /\ SubSeq(securityLogs', 1, Len(securityLogs)) = securityLogs
        \/ securityLogs' = <<>>
        \/ \E uid \in 1..Len(users) :
             securityLogs' = OthersEntries(securityLogs, uid)
     /\ (resp'.id # resp.id /\ resp'.op = "security_logs" /\ resp'.status = 200)
          => resp'.body.logs = OwnEntries(securityLogs', resp'.req.token.payload.userId)]_vars

\* C11, its case: an account read its log, which held two entries of its
\* own, recorded for different actions, and the log held entries of others.
C11_Witness ==
  /\ resp.op = "security_logs"
  /\ resp.status = 200
  /\ Len(resp.body.logs) >= 2
  /\ resp.body.logs[1].action = "account_created"
  /\ resp.body.logs[2].action # "account_created"
  /\ \A i \in 1..Len(resp.body.logs) :
       resp.body.logs[i].userId = resp.req.token.payload.userId
  /\ \E i \in 1..Len(securityLogs) :
       securityLogs[i].userId # resp.req.token.payload.userId

\* ----------------------------------------------------------------- C12
\* The actions of the entries of the log, oldest first.
ActionsOf(logs) == [i \in 1..Len(logs) |-> logs[i].action]

\* C12: when the account that signed up first has logged in with success and
\* has then been locked by wrong passwords alone, its security log reads
\* account_created, login_success, five login_failed and then account_locked.
C12_ScenarioLog ==
  LET own == OwnEntries(securityLogs, 1) IN
  (/\ Len(users) >= 1
   /\ users[1].isLocked
   /\ Len(own) >= 2
   /\ own[1].action = "account_created"
   /\ own[2].action = "login_success"
   /\ \A i \in 3..Len(own) : own[i].action \in {"login_failed", "account_locked"})
    => ActionsOf(own) = <<"account_created", "login_success",
                           "login_failed", "login_failed", "login_failed",
                           "login_failed", "login_failed", "account_locked">>

\* ----------------------------------------------------------------- C13
\* C13: a request handled while the storage of security log entries throws
\* is never answered 500 and stores no entry; a login with the right
\* password is answered 200 with a token and stamps lastLogin, a wrong
\* password is counted and answered 401 or 423, a reset request creates its
\* ticket and gets the generic answer, and a reset replaces the password
\* hash and marks the ticket used: what each does when logging succeeds.
C13_LogFailureSwallowed ==
  [][(logFails /\ resp'.id # resp.id)
       => /\ resp'.status # 500
          /\ securityLogs' = securityLogs
          /\ \A h \in inflight \ inflight' :
               /\ (h.op = "login" /\ h.isValidPassword)
                    => /\ resp'.status = 200
                       /\ resp'.body.token \in issued'
                       /\ users'[h.req.userId].lastLogin = now
               /\ (h.op = "login" /\ ~h.isValidPassword)
                    => /\ users'[h.req.userId].failedLoginAttempts
                            = users[h.req.userId].failedLoginAttempts + 1
                       /\ resp'.status = IF users'[h.req.userId].isLocked THEN 423 ELSE 401
               /\ h.op = "reset"
                    => /\ resp'.status = 200
                       /\ users'[h.userId].passwordHash = h.passwordHash
                       /\ \A i \in 1..Len(passwordResets') :
                            passwordResets'[i].id = h.resetId => passwordResets'[i].used
          /\ (resp'.op = "reset-request" /\ resp'.req.email = "alice@example.com")
               => /\ resp'.body = ResetRequestAccepted
                  /\ Len(passwordResets') = Len(passwordResets) + 1
          /\ (resp'.op = "login" /\ resp'.req.userId = NO_USER /\ resp'.status # 429)
               => resp'.body = InvalidCredentials]_vars

\* C13, its case: a login with the right password was answered 200 although
\* its login_success entry could not be stored.
C13_Witness ==
  /\ logFails
  /\ resp.op = "login"
  /\ resp.status = 200
  /\ resp.body.token \in issued
  /\ users[resp.req.userId].lastLogin = resp.req.at
  /\ \A i \in 1..Len(securityLogs) : securityLogs[i].action # "login_success"

\* ----------------------------------------------------------------- C14
\* C14: a login whose bcrypt.compare throws is answered as a wrong password
\* is, with InvalidCredentials, and the failure is counted.
C14_CompareErrorIsFailure ==
  [][\A h \in inflight :
       LoginCompareThrows(h)
         => /\ resp'.body = InvalidCredentials
            /\ users'[h.req.userId].failedLoginAttempts
                 = users[h.req.userId].failedLoginAttempts + 1]_vars

\* ----------------------------------------------------------------- C15
\* C15: a login that is evaluated for an account with isLocked set and
\* lockoutUntil not in the future leaves the account unlocked, with
\* failedLoginAttempts 0 after the right password and 1 after a wrong one.
C15_LazyUnlock ==
  [][\A h \in inflight \ inflight' :
       (/\ h.op = "login"
        /\ users[h.req.userId].isLocked
        /\ now >= users[h.req.userId].lockoutUntil)
         => /\ ~users'[h.req.userId].isLocked
            /\ users'[h.req.userId].failedLoginAttempts
                 = IF h.isValidPassword THEN 0 ELSE 1]_vars

\* ----------------------------------------------------------------- C16
\* C16: a reset handler that completes for a token whose redemption has
\* already succeeded is rejected with ResetTokenInvalid and leaves the
\* password hash as it is.
C16_OneResetWins ==
  [][\A h \in inflight \ inflight' :
       (h.op = "reset" /\ h.req.token \in redeemed)
         => /\ resp'.body = ResetTokenInvalid
            /\ users'[h.userId].passwordHash = users[h.userId].passwordHash]_vars

\* ----------------------------------------------------------------- C17
\* C17: for every key and every interval of 15 minutes, here the one that
\* starts with a request of the key, the rate limiter accepts at most 5
\* requests of the key in the interval.
C17_AtMostFivePerInterval ==
  \A i \in 1..Len(reqLog) :
    Cardinality({j \in 1..Len(reqLog) :
                   /\ reqLog[j].ip = reqLog[i].ip
                   /\ reqLog[j].path = reqLog[i].path
                   /\ reqLog[j].status = 200
                   /\ reqLog[i].at <= reqLog[j].at
                   /\ reqLog[j].at < reqLog[i].at + 900000}) <= 5

\* ----------------------------------------------------------------- C18
\* C18: while an account is locked and lockoutUntil is in the future, no step
\* unlocks it, changes lockoutUntil or issues a token for it.
C18_LockHolds ==
  [][\A uid \in 1..Len(users) :
       (users[uid].isLocked /\ now < users[uid].lockoutUntil)
         => /\ users'[uid].isLocked
            /\ users'[uid].lockoutUntil = users[uid].lockoutUntil
            /\ \A token \in issued' \ issued : token.payload.userId # uid]_vars

\* ----------------------------------------------------------------- C19
\* C19: for a ticket that is not used, a redemption of its token goes on to
\* replace the password when now < expiresAt and only then: from expiresAt
\* on no handler gets past the checks of the ticket, and before expiresAt
\* none is answered 400.
C19_UsableIffNotExpired ==
  [][\A i \in 1..Len(passwordResets) :
       ~passwordResets[i].used
         => /\ now >= passwordResets[i].expiresAt
                 => \A h \in inflight' \ inflight :
                      ~(h.op = "reset" /\ h.req.token = passwordResets[i].token)
            /\ now < passwordResets[i].expiresAt
                 => ~(/\ resp'.id # resp.id
                      /\ resp'.op = "reset"
                      /\ resp'.req.token = passwordResets[i].token
                      /\ resp'.status = 400)]_vars

\* ----------------------------------------------------------------- C20
\* C20: a login request that comes when its key has used up its window is
\* answered 429, and a request answered 429 leaves the users, the reset
\* tickets, the security log, the issued tokens and the suspended handlers
\* as they were.
C20_LimitedRequestFrame ==
  [][(served' = served + 1 /\ resp'.id = served' /\ resp'.op = "login")
       => /\ isRateLimited(rateLimitStore, resp'.req.ip, LOGIN_PATH, now).limited
               => resp'.status = 429
          /\ resp'.status = 429
               => /\ users' = users
                  /\ passwordResets' = passwordResets
                  /\ securityLogs' = securityLogs
                  /\ issued' = issued
                  /\ inflight' = inflight]_vars

\* C20, its case: a login for an account that has failed logins counted was
\* rejected by the rate limiter.
C20_Witness ==
  /\ resp.op = "login"
  /\ resp.status = 429
  /\ resp.req.userId # NO_USER
  /\ users[resp.req.userId].failedLoginAttempts > 0
  /\ ~users[resp.req.userId].isLocked

\* ----------------------------------------------------------------- C21
\* C21: a login request that is answered 423 by the lock check (the account
\* is locked and now < lockoutUntil) leaves the account's failedLoginAttempts
\* and lockoutUntil as they were, and the answer carries that lockoutUntil.
C21_LockedRejectionFrame ==
  [][\A uid \in 1..Len(users) :
       (/\ users[uid].isLocked /\ now < users[uid].lockoutUntil
        /\ served' = served + 1
        /\ resp'.id = served' /\ resp'.op = "login" /\ resp'.req.userId = uid
        /\ resp'.status = 423)
         => /\ users'[uid].failedLoginAttempts = users[uid].failedLoginAttempts
            /\ users'[uid].lockoutUntil = users[uid].lockoutUntil
            /\ users'[uid].isLocked
            /\ resp'.body.lockoutUntil = users[uid].lockoutUntil]_vars

\* C21, its case: a login that came after the instant of the lock was
\* answered 423 with the lockoutUntil the account has.
C21_Witness ==
  \E uid \in 1..Len(users) :
    /\ resp.op = "login" /\ resp.req.userId = uid
    /\ resp.status = 423
    /\ users[uid].isLocked
    /\ resp.req.at < users[uid].lockoutUntil
    /\ resp.req.at > users[uid].lockoutUntil - LOCKOUT
    /\ resp.body.lockoutUntil = users[uid].lockoutUntil

\* ----------------------------------------------------------------- C22
\* C22: an account with isLocked set has a lockoutUntil, and it is the time
\* of the attempt that locked it last, as the security log has it, plus
\* 15 minutes.
C22_LockedHasUntil ==
  \A uid \in 1..Len(users) :
    users[uid].isLocked
      => /\ users[uid].lockoutUntil # NULL_DATE
         /\ \E i \in 1..Len(securityLogs) :
              /\ securityLogs[i].userId = uid
              /\ securityLogs[i].action = "account_locked"
              /\ \A j \in (i + 1)..Len(securityLogs) :
                   ~(securityLogs[j].userId = uid /\ securityLogs[j].action = "account_locked")
              /\ users[uid].lockoutUntil = securityLogs[i].timestamp + 900000
              /\ users[uid].lockoutUntil >= securityLogs[i].timestamp

\* C22, its case: an account locked for the second time, after the first
\* lockout had run out.
C22_Witness ==
  \E uid \in 1..Len(users) :
    /\ users[uid].isLocked
    /\ users[uid].lockoutUntil > 900000
    /\ Cardinality({i \in 1..Len(securityLogs) :
                      securityLogs[i].userId = uid
                      /\ securityLogs[i].action = "account_locked"}) = 2

\* ----------------------------------------------------------------- C23
\* C23: a password reset that is answered 200 has replaced the password hash
\* of the account, marked its ticket used and added a
\* password_reset_completed entry to the security log, and has left the
\* account's isLocked, lockoutUntil and failedLoginAttempts as they were.
C23_ResetFrame ==
  [][\A h \in inflight \ inflight' :
       (h.op = "reset" /\ resp'.id = h.id /\ resp'.status = 200)
         => /\ users'[h.userId].passwordHash = h.passwordHash
            /\ \A i \in 1..Len(passwordResets') :
                 passwordResets'[i].id = h.resetId => passwordResets'[i].used
            /\ securityLogs' = Append(securityLogs,
                                      [userId |-> h.userId,
                                       action |-> "password_reset_completed",
                                       timestamp |-> now])
            /\ users'[h.userId].isLocked = users[h.userId].isLocked
            /\ users'[h.userId].lockoutUntil = users[h.userId].lockoutUntil
            /\ users'[h.userId].failedLoginAttempts
                 = users[h.userId].failedLoginAttempts]_vars

\* C23, its case: the password of a locked account was reset and the account
\* is still locked.
C23_Witness ==
  /\ resp.op = "reset"
  /\ resp.status = 200
  /\ Len(securityLogs) >= 1
  /\ LET last == securityLogs[Len(securityLogs)] IN
     /\ last.action = "password_reset_completed"
     /\ users[last.userId].isLocked
     /\ users[last.userId].failedLoginAttempts >= 4
     /\ users[last.userId].passwordHash = bcryptHash("Passw0rd2")

\* ----------------------------------------------------------------- C24
\* C24: a request the rate limiter rejects leaves the store as it is, count
\* and firstAttempt of its key included; and after a rejection in a window,
\* every request of the key that comes no more than 15 minutes after the
\* start of that window is rejected.
C24_RejectionKeepsRecord ==
  [][Len(reqLog') = Len(reqLog) + 1
       => LET e == reqLog'[Len(reqLog')] IN
          /\ e.status = 429 => rateLimitStore' = rateLimitStore
          /\ (\E j \in 1..Len(reqLog) :
                /\ reqLog[j].ip = e.ip /\ reqLog[j].path = e.path
                /\ reqLog[j].status = 429
                /\ e.at - WindowAt(reqLog, j).start <= 900000)
               => e.status = 429]_vars

\* C24, its case: a key was rejected, time went by within the window, and
\* the key was rejected again with its record still at the ceiling and at
\* the window's start.
C24_Witness ==
  \E i, j \in 1..Len(reqLog) :
    /\ i < j /\ j = Len(reqLog)
    /\ reqLog[i].ip = reqLog[j].ip /\ reqLog[i].path = reqLog[j].path
    /\ reqLog[i].status = 429 /\ reqLog[j].status = 429
    /\ reqLog[i].at < reqLog[j].at
    /\ rateLimitStore[<<reqLog[j].ip, reqLog[j].path>>]
         = [count |-> 5, firstAttempt |-> WindowAt(reqLog, i).start]

\* ----------------------------------------------------------------- C25
\* C25: when a request of a key was rejected at time t, the first request of
\* the key that comes at t + 900 s or later is accepted.
C25_RetryAfterHonoured ==
  \A i, j \in 1..Len(reqLog) :
    (/\ i < j
     /\ reqLog[i].ip = reqLog[j].ip /\ reqLog[i].path = reqLog[j].path
     /\ reqLog[i].status = 429
     /\ reqLog[j].at >= reqLog[i].at + 900 * 1000
     /\ \A k \in (i + 1)..(j - 1) :
          ~(/\ reqLog[k].ip = reqLog[i].ip /\ reqLog[k].path = reqLog[i].path
            /\ reqLog[k].at >= reqLog[i].at + 900 * 1000))
      => reqLog[j].status = 200

\* C26: for an account with twoFactorEnabled, login issues a token only when
\* both the password and the second-factor code are right, and the two
\* second-factor answers (code required, invalid code) are given only to a
\* request whose password has been verified.
C26_TwoFactorGate ==
  [][ (/\ resp'.op = "login" /\ resp'.id # resp.id
       /\ resp'.req.userId # NO_USER
       /\ users[resp'.req.userId].twoFactorEnabled)
        => LET u == users[resp'.req.userId]
               passwordOk == bcryptCompare(resp'.req.password, u.passwordHash)
           IN
           /\ resp'.status = 200 => (passwordOk /\ resp'.req.code = "123456")
           /\ (/\ resp'.status \in {400, 401}
               /\ resp'.body.error \in {"Two-factor authentication code required",
                                         "Invalid two-factor authentication code"})
                 => passwordOk
    ]_vars

C26_Witness ==
  /\ resp.op = "login" /\ resp.status = 200
  /\ users[1].twoFactorEnabled
  /\ resp.req.code = "123456"
  /\ \E l \in 1..Len(securityLogs) : securityLogs[l].action = "2fa_failed"

\* C27: a login that fails at the second factor (code missing or wrong)
\* leaves failedLoginAttempts, isLocked and lockoutUntil of the account as
\* they were.
C27_CodeFailureFrame ==
  [][ (/\ resp'.op = "login" /\ resp'.id # resp.id
       /\ resp'.status \in {400, 401}
       /\ resp'.body.error \in {"Two-factor authentication code required",
                                 "Invalid two-factor authentication code"})
        => LET uid == resp'.req.userId IN
           /\ users'[uid].failedLoginAttempts = users[uid].failedLoginAttempts
           /\ users'[uid].isLocked = users[uid].isLocked
           /\ users'[uid].lockoutUntil = users[uid].lockoutUntil
    ]_vars

C27_Witness ==
  /\ resp.op = "login" /\ resp.status = 401
  /\ resp.body.error = "Invalid two-factor authentication code"
  /\ users[1].failedLoginAttempts = 2
  /\ ~users[1].isLocked

\* C28: an account can hold several unused reset tickets.  A successful
\* completeReset marks the ticket it was given used and leaves every other
\* ticket as it was, and a ticket that is unused and not yet expired is not
\* turned away as invalid or expired.
C28_OtherTicketsKept ==
  [][ (/\ resp'.op = "reset" /\ resp'.id # resp.id)
        => /\ resp'.status = 200
                => /\ Len(passwordResets') = Len(passwordResets)
                   /\ \A i \in 1..Len(passwordResets) :
                        IF passwordResets[i].token = resp'.req.token
                          THEN passwordResets'[i].used
                          ELSE passwordResets'[i] = passwordResets[i]
           /\ resp'.status = 400
                => ~\E i \in 1..Len(passwordResets) :
                      /\ passwordResets[i].token = resp'.req.token
                      /\ ~passwordResets[i].used
                      /\ now < passwordResets[i].expiresAt
    ]_vars

C28_Witness ==
  /\ resp.op = "reset" /\ resp.status = 200
  /\ Cardinality(redeemed) = 2
  /\ \E i, j \in 1..Len(passwordResets) :
       /\ i # j
       /\ passwordResets[i].userId = passwordResets[j].userId
       /\ passwordResets[i].used /\ passwordResets[j].used
       /\ passwordResets[j].token = resp.req.token

\* C29: the sweep removes exactly the tickets that are used or whose expiry
\* is before now, and keeps the unused, unexpired tickets in their order.
C29_SweepExact ==
  [][ (passwordResets' # passwordResets /\ Len(passwordResets') < Len(passwordResets))
        => LET kept == {i \in 1..Len(passwordResets) :
                          ~passwordResets[i].used /\ ~(passwordResets[i].expiresAt < now)}
           IN
           /\ Len(passwordResets') = Cardinality(kept)
           /\ \A i \in kept :
                 passwordResets'[Cardinality({k \in kept : k <= i})] = passwordResets[i]
    ]_vars

C29_Witness ==
  /\ Len(passwordResets) = 1
  /\ ~passwordResets[1].used
  /\ ~(passwordResets[1].expiresAt < now)
  /\ redeemed # {}
  /\ passwordResets[1].token \notin redeemed

\* C30: at most one game profile has isActive = true, whatever profiles are
\* created and updated.
C30_OneActiveProfile ==
  Cardinality({i \in 1..Len(gameProfiles) : gameProfiles[i].isActive}) <= 1

====
